---- MODULE Spec2Model ----
(***************************************************************************)
(* A model of StixmapperService (app/stixmapper_svc.py): the mapping of    *)
(* STIX attack-patterns to CALDERA abilities.                              *)
(*                                                                         *)
(* Python values are tagged records, so that a value of any type can sit   *)
(* in any field and isinstance() is a test of the tag:                     *)
(*   [none |-> TRUE]  None          [str |-> "T1055"]   a str              *)
(*   [int |-> 7]      an int        [list |-> <<..>>]   a list             *)
(*   [dict |-> r]     a dict, r a record of its keys                       *)
(*   [obj |-> r]      an object, r a record of its attributes             *)
(*   [exc |-> "E"]    the outcome of an expression that raises E           *)
(* Containers the code itself builds with a fixed shape (the mappings      *)
(* list, a mapping, the stats, the tactics list) are plain sequences and   *)
(* records; a key the code leaves out of a mapping is a field the record   *)
(* does not have.                                                          *)
(***************************************************************************)
EXTENDS Integers, Sequences, FiniteSets, TLC

None == [none |-> TRUE]
S(s) == [str |-> s]
N(n) == [int |-> n]
L(q) == [list |-> q]
D(r) == [dict |-> r]
O(r) == [obj |-> r]
Exc(e) == [exc |-> e]

IsNone(v) == "none" \in DOMAIN v
IsStr(v) == "str" \in DOMAIN v
IsInt(v) == "int" \in DOMAIN v
IsList(v) == "list" \in DOMAIN v
IsDict(v) == "dict" \in DOMAIN v
IsObj(v) == "obj" \in DOMAIN v
IsExc(v) == "exc" \in DOMAIN v

\* Python truth value of a value: None, "", 0, [] and {} are false.
Truthy(v) ==
    CASE IsNone(v) -> FALSE
      [] IsStr(v) -> v.str # ""
      [] IsInt(v) -> v.int # 0
      [] IsList(v) -> v.list # <<>>
      [] IsDict(v) -> DOMAIN v.dict # {}
      [] OTHER -> TRUE

\* a or b
Or(a, b) == IF Truthy(a) THEN a ELSE b

\* d.get(key) of a dict d
DictGet(d, key) == IF key \in DOMAIN d.dict THEN d.dict[key] ELSE None

\* getattr(o, key, None): a dict or a str has none of the attributes asked for
GetAttr(o, key) == IF IsObj(o) /\ key \in DOMAIN o.obj THEN o.obj[key] ELSE None

-----------------------------------------------------------------------------
(* Strings, character by character.                                        *)

Ch(s, i) == SubSeq(s, i, i)

LowerChars == "abcdefghijklmnopqrstuvwxyz"
UpperChars == "ABCDEFGHIJKLMNOPQRSTUVWXYZ"
Digits == {"0", "1", "2", "3", "4", "5", "6", "7", "8", "9"}
Whitespace == {" ", "\t", "\n"}
\* the characters of the model in code point order
CharOrder == "\t\n -./0123456789:ABCDEFGHIJKLMNOPQRSTUVWXYZ_abcdefghijklmnopqrstuvwxyz"

\* c.upper() and c.lower() of the letters, as tables
UpperOf == [i \in 1..Len(LowerChars) |-> Ch(UpperChars, i)]
LowerIndex == [c \in {Ch(LowerChars, i) : i \in 1..Len(LowerChars)} |->
                 CHOOSE i \in 1..Len(LowerChars) : Ch(LowerChars, i) = c]
LowerOf == [i \in 1..Len(UpperChars) |-> Ch(LowerChars, i)]
UpperIndex == [c \in {Ch(UpperChars, i) : i \in 1..Len(UpperChars)} |->
                 CHOOSE i \in 1..Len(UpperChars) : Ch(UpperChars, i) = c]

UpperChar(c) == IF c \in DOMAIN LowerIndex THEN UpperOf[LowerIndex[c]] ELSE c

LowerChar(c) == IF c \in DOMAIN UpperIndex THEN LowerOf[UpperIndex[c]] ELSE c

RECURSIVE Upper(_)
\* s.upper()
Upper(s) == IF s = "" THEN "" ELSE UpperChar(Head(s)) \o Upper(Tail(s))

RECURSIVE Lower(_)
\* s.lower()
Lower(s) == IF s = "" THEN "" ELSE LowerChar(Head(s)) \o Lower(Tail(s))

RECURSIVE LStrip(_)
LStrip(s) == IF s # "" /\ Head(s) \in Whitespace THEN LStrip(Tail(s)) ELSE s

RECURSIVE RStrip(_)
RStrip(s) ==
    IF s # "" /\ Ch(s, Len(s)) \in Whitespace
    THEN RStrip(SubSeq(s, 1, Len(s) - 1))
    ELSE s

\* s.strip()
Strip(s) == RStrip(LStrip(s))

AllDigits(s, from, to) ==
    /\ to <= Len(s)
    /\ \A i \in from..to : Ch(s, i) \in Digits

OrdOf == [c \in {Ch(CharOrder, i) : i \in 1..Len(CharOrder)} |->
            CHOOSE i \in 1..Len(CharOrder) : Ch(CharOrder, i) = c]
Ord(c) == OrdOf[c]

RECURSIVE StrLess(_, _)
\* a < b of two str
StrLess(a, b) ==
    IF b = "" THEN FALSE
    ELSE IF a = "" THEN TRUE
    ELSE IF Head(a) = Head(b) THEN StrLess(Tail(a), Tail(b))
    ELSE Ord(Head(a)) < Ord(Head(b))

\* '.' in s
HasDot(s) == \E i \in 1..Len(s) : Ch(s, i) = "."

\* s.split('.', 1)[0]
BeforeDot(s) ==
    IF HasDot(s)
    THEN LET i == CHOOSE i \in 1..Len(s) :
                    Ch(s, i) = "." /\ \A j \in 1..(i - 1) : Ch(s, j) # "."
         IN SubSeq(s, 1, i - 1)
    ELSE s

-----------------------------------------------------------------------------
(* The two regular expressions.                                            *)

\* MITRE_TECH_ID_RE.match(s): ^(T\d{4})(?:\.(\d{3}))?$ ignoring case; the
\* value is group(0), or None. `$` also matches before one final newline.
MITRE_TECH_ID_RE(s) ==
    LET body == IF s # "" /\ Ch(s, Len(s)) = "\n"
                THEN SubSeq(s, 1, Len(s) - 1) ELSE s
        Whole(t) ==
            /\ Len(t) \in {5, 9}
            /\ UpperChar(Ch(t, 1)) = "T"
            /\ AllDigits(t, 2, 5)
            /\ Len(t) = 9 => (Ch(t, 6) = "." /\ AllDigits(t, 7, 9))
    IN  IF Whole(s) THEN S(s)
        ELSE IF Whole(body) THEN S(body)
        ELSE None

UrlPrefix == "/techniques/"

\* MITRE_URL_ID_RE.search(url): /techniques/(T\d{4})(?:/(\d{3}))? ignoring
\* case, at the leftmost place it matches; the groups, or None.
MITRE_URL_ID_RE(url) ==
    LET n == Len(UrlPrefix)
        At(p) ==
            /\ p + n + 4 <= Len(url)
            /\ Ch(url, p) = "/"
            /\ UpperChar(Ch(url, p + n)) = "T"
            /\ AllDigits(url, p + n + 1, p + n + 4)
            /\ Lower(SubSeq(url, p, p + n - 1)) = UrlPrefix
        Places == {p \in 1..Len(url) : At(p)}
    IN  IF Places = {} THEN None
        ELSE LET p == CHOOSE q \in Places : \A r \in Places : q <= r
                 e == p + n + 4
                 hasSub == /\ e + 4 <= Len(url)
                           /\ Ch(url, e + 1) = "/"
                           /\ AllDigits(url, e + 2, e + 4)
             IN  D([tech_id |-> S(SubSeq(url, p + n, e)),
                    sub |-> IF hasSub THEN S(SubSeq(url, e + 2, e + 4)) ELSE None])

-----------------------------------------------------------------------------
(* StixmapperService: the helpers.                                         *)

RECURSIVE _get(_, _)
\* self._get(obj, path): None as soon as a key or an attribute is missing
_get(obj, path) ==
    IF path = <<>> THEN obj
    ELSE LET cur == IF IsDict(obj) THEN DictGet(obj, Head(path))
                    ELSE GetAttr(obj, Head(path))
         IN  IF IsNone(cur) THEN None ELSE _get(cur, Tail(path))

\* the id a URL match gives: f"{tech}.{sub}" if sub else tech
UrlTechniqueId(m) ==
    LET tech == Upper(DictGet(m, "tech_id").str)
        sub == DictGet(m, "sub")
    IN  IF Truthy(sub) THEN S(tech \o "." \o sub.str) ELSE S(tech)

RECURSIVE PreferredScanUrlFirst(_)
\* a first loop that tries the url of a reference before its external_id
PreferredScanUrlFirst(refs) ==
    IF refs = <<>> THEN None
    ELSE LET ref == Head(refs)
             isMitre == Lower(Or(DictGet(ref, "source_name"), S("")).str) = "mitre-attack"
             ext_id == Strip(Or(DictGet(ref, "external_id"), S("")).str)
             mid == IF ext_id # "" THEN MITRE_TECH_ID_RE(ext_id) ELSE None
             murl == MITRE_URL_ID_RE(Or(DictGet(ref, "url"), S("")).str)
         IN  IF isMitre /\ ~IsNone(murl) THEN UrlTechniqueId(murl)
             ELSE IF isMitre /\ ~IsNone(mid) THEN S(Upper(mid.str))
             ELSE PreferredScanUrlFirst(Tail(refs))

RECURSIVE PreferredScan(_)
\* the first loop of _extract_mitre_technique_id over the references left:
\* the id the first reference that yields one gives, or None
PreferredScan(refs) ==
    IF refs = <<>> THEN None
    ELSE LET ref == Head(refs)
             isMitre == Lower(Or(DictGet(ref, "source_name"), S("")).str) = "mitre-attack"
             ext_id == Strip(Or(DictGet(ref, "external_id"), S("")).str)
             mid == IF ext_id # "" THEN MITRE_TECH_ID_RE(ext_id) ELSE None
             murl == MITRE_URL_ID_RE(Or(DictGet(ref, "url"), S("")).str)
         IN  IF isMitre /\ ~IsNone(mid) THEN S(Upper(mid.str))
             ELSE IF isMitre /\ ~IsNone(murl) THEN UrlTechniqueId(murl)
             ELSE PreferredScan(Tail(refs))

RECURSIVE AnyUrlScan(_)
\* the second loop: the first URL of any reference that holds an id
AnyUrlScan(refs) ==
    IF refs = <<>> THEN None
    ELSE LET murl == MITRE_URL_ID_RE(Or(DictGet(Head(refs), "url"), S("")).str)
         IN  IF ~IsNone(murl) THEN UrlTechniqueId(murl)
             ELSE AnyUrlScan(Tail(refs))

\* self._extract_mitre_technique_id(ap): a str, or None
_extract_mitre_technique_id(ap) ==
    LET refs == Or(DictGet(ap, "external_references"), L(<<>>)).list
        first == PreferredScan(refs)
    IN  IF ~IsNone(first) THEN first ELSE AnyUrlScan(refs)

RECURSIVE Sorted(_)
\* sorted(a set of str)
Sorted(T) ==
    IF T = {} THEN <<>>
    ELSE LET m == CHOOSE a \in T : \A b \in T \ {a} : StrLess(a, b)
         IN  <<m>> \o Sorted(T \ {m})

RECURSIVE InListOrder(_, _)
InListOrder(names, seen) ==
    IF names = <<>> THEN <<>>
    ELSE IF Head(names) \in seen THEN InListOrder(Tail(names), seen)
    ELSE <<Head(names)>> \o InListOrder(Tail(names), seen \cup {Head(names)})

\* tactics returned in the order the phases name them, not sorted
TacticsInListOrder(ap) ==
    LET phases == Or(DictGet(ap, "kill_chain_phases"), L(<<>>)).list
        Mitre(p) == Lower(Or(DictGet(p, "kill_chain_name"), S("")).str) = "mitre-attack"
        Ph(p) == Strip(Or(DictGet(p, "phase_name"), S("")).str)
        names == [i \in 1..Len(phases) |-> IF Mitre(phases[i]) THEN Ph(phases[i]) ELSE ""]
    IN  InListOrder(names, {""})

\* self._extract_mitre_tactics(ap): the sorted list of the tactics
_extract_mitre_tactics(ap) ==
    LET phases == Or(DictGet(ap, "kill_chain_phases"), L(<<>>)).list
        Mitre(p) == Lower(Or(DictGet(p, "kill_chain_name"), S("")).str) = "mitre-attack"
        Ph(p) == Strip(Or(DictGet(p, "phase_name"), S("")).str)
        tactics == {Ph(phases[i]) : i \in {j \in 1..Len(phases) : Mitre(phases[j])}} \ {""}
    IN  Sorted(tactics)

\* the record _find_abilities_for_attack_id appends for ability a
Normalized(a, ability_attack_id, tech_name) ==
    [ability_id |-> Or(Or(Or(_get(a, <<"ability_id">>), _get(a, <<"id">>)),
                          GetAttr(a, "ability_id")), GetAttr(a, "id")),
     name |-> Or(_get(a, <<"name">>), GetAttr(a, "name")),
     tactic |-> Or(_get(a, <<"tactic">>), GetAttr(a, "tactic")),
     technique |-> [attack_id |-> ability_attack_id, name |-> tech_name]]

\* (ability_attack_id or "").upper() == attack_id.upper(); a value that is
\* true and no str has no upper(): AttributeError
SameAttackId(ability_attack_id, attack_id) ==
    LET v == Or(ability_attack_id, S(""))
    IN  IF ~IsStr(v) THEN Exc("AttributeError")
        ELSE IF Upper(v.str) = Upper(attack_id) THEN [val |-> TRUE]
        ELSE [val |-> FALSE]

RECURSIVE MatchLoop(_, _, _)
\* the loop of _find_abilities_for_attack_id over the abilities left
MatchLoop(abilities, attack_id, matched) ==
    IF abilities = <<>> THEN [val |-> matched]
    ELSE LET a == Head(abilities)
             tech == Or(_get(a, <<"technique">>), D(<<>>))
             ability_attack_id == IF IsDict(tech) THEN DictGet(tech, "attack_id")
                                  ELSE GetAttr(tech, "attack_id")
             tech_name == IF IsDict(tech) THEN DictGet(tech, "name")
                          ELSE GetAttr(tech, "name")
             same == SameAttackId(ability_attack_id, attack_id)
         IN  IF IsExc(same) THEN same
             ELSE IF same.val
             THEN MatchLoop(Tail(abilities), attack_id,
                            Append(matched, Normalized(a, ability_attack_id, tech_name)))
             ELSE MatchLoop(Tail(abilities), attack_id, matched)

\* _find_abilities_for_attack_id(attack_id), given what locate('abilities')
\* returned: [val |-> the list] or the exception
FindAbilities(all_abilities, attack_id) ==
    MatchLoop(Or(all_abilities, L(<<>>)).list, attack_id, <<>>)

RECURSIVE TacticFilter(_, _, _)
\* [a for a in abilities if a.get('tactic') in tactic_set]; a list or a dict
\* is unhashable: TypeError
TacticFilter(abilities, tactic_set, kept) ==
    IF abilities = <<>> THEN [val |-> kept]
    ELSE LET t == Head(abilities).tactic
         IN  IF IsList(t) \/ IsDict(t) THEN Exc("TypeError")
             ELSE IF IsStr(t) /\ t.str \in tactic_set
             THEN TacticFilter(Tail(abilities), tactic_set, Append(kept, Head(abilities)))
             ELSE TacticFilter(Tail(abilities), tactic_set, kept)

\* a fallback that does not look for the '.' of a sub-technique
ShouldFallbackAnyId(abilities, fallback_to_parent, technique_id) ==
    abilities = <<>> /\ fallback_to_parent

\* line 44: is the parent technique to be queried?
ShouldFallback(abilities, fallback_to_parent, technique_id) ==
    abilities = <<>> /\ fallback_to_parent /\ HasDot(technique_id)

\* line 45
ParentOf(technique_id) == Upper(BeforeDot(technique_id))

\* a filter that also runs against an empty tactic set
ShouldFilterAnySet(filter_by_tactic, tactics, abilities) ==
    filter_by_tactic /\ abilities # <<>>

\* line 48: is the tactic filter to run?
ShouldFilter(filter_by_tactic, tactics, abilities) ==
    filter_by_tactic /\ tactics # <<>> /\ abilities # <<>>

\* lines 48-50: the abilities after the optional filter, or the exception
Filtered(filter_by_tactic, tactics, abilities) ==
    IF ShouldFilter(filter_by_tactic, tactics, abilities)
    THEN TacticFilter(abilities, {tactics[i] : i \in 1..Len(tactics)}, <<>>)
    ELSE [val |-> abilities]

\* a mapping that reports the id the abilities were matched with as technique_id
MappingOfUsedId(ap, technique_id, parent_technique_id, tactics, abilities) ==
    LET base == [attack_pattern_id |-> DictGet(ap, "id"),
                 name |-> DictGet(ap, "name"),
                 technique_id |-> Or(parent_technique_id, technique_id),
                 tactics |-> tactics,
                 abilities |-> abilities]
    IN  IF Truthy(parent_technique_id)
        THEN base @@ [parent_technique_id |-> parent_technique_id]
        ELSE base

\* lines 54-61: the mapping of an attack-pattern with a technique id
Mapping(ap, technique_id, parent_technique_id, tactics, abilities) ==
    LET base == [attack_pattern_id |-> DictGet(ap, "id"),
                 name |-> DictGet(ap, "name"),
                 technique_id |-> technique_id,
                 tactics |-> tactics,
                 abilities |-> abilities]
    IN  IF Truthy(parent_technique_id)
        THEN base @@ [parent_technique_id |-> parent_technique_id]
        ELSE base

\* lines 63-69: the mapping of an attack-pattern without one
NullMapping(ap, tactics) ==
    [attack_pattern_id |-> DictGet(ap, "id"),
     name |-> DictGet(ap, "name"),
     technique_id |-> None,
     tactics |-> tactics,
     abilities |-> <<>>]

\* line 23: is the input refused?
NotABundle(stix_bundle) ==
    ~IsDict(stix_bundle) \/ DictGet(stix_bundle, "type") # S("bundle")

RECURSIVE SelectAttackPatterns(_)
\* line 27: [o for o in objs if o.get('type') == 'attack-pattern']; an
\* object that is no dict has no get(): AttributeError
SelectAttackPatterns(objs) ==
    IF objs = <<>> THEN [val |-> <<>>]
    ELSE LET o == Head(objs)
             rest == SelectAttackPatterns(Tail(objs))
         IN  IF ~IsDict(o) THEN Exc("AttributeError")
             ELSE IF IsExc(rest) THEN rest
             ELSE IF DictGet(o, "type") = S("attack-pattern")
             THEN [val |-> <<o>> \o rest.val]
             ELSE rest

\* stats that count every attack-pattern as one with a technique
ResultCountingAll(mappings, n_attack_patterns, ap_with_tech, total_abilities) ==
    [mappings |-> mappings,
     stats |-> [attack_patterns |-> n_attack_patterns,
                with_technique |-> n_attack_patterns,
                abilities_found |-> total_abilities]]

\* lines 71-78
Result(mappings, n_attack_patterns, ap_with_tech, total_abilities) ==
    [mappings |-> mappings,
     stats |-> [attack_patterns |-> n_attack_patterns,
                with_technique |-> ap_with_tech,
                abilities_found |-> total_abilities]]

-----------------------------------------------------------------------------
(* The state: one service, its ability store, and the invocations of       *)
(* match_stix_to_abilities that run on it.                                  *)

VARIABLES
    data_svc,   \* what self.data_svc.locate('abilities') returns
    args,       \* args[c]: the arguments of invocation c
    pc,         \* pc[c]: "call", "loop", "await_exact", "await_parent", "returned", "raised"
    frame,      \* frame[c]: the local variables of invocation c
    result,     \* result[c]: what invocation c returned or raised, None before
    queries     \* the calls of locate('abilities') so far, in order

vars == <<data_svc, args, pc, frame, result, queries>>

Callers == DOMAIN args

\* the locals before line 23
NewFrame ==
    [attack_patterns |-> <<>>, k |-> 0, mappings |-> <<>>, ap_with_tech |-> 0,
     total_abilities |-> 0, tactics |-> <<>>, technique_id |-> None,
     parent_technique_id |-> None]

\* mappings kept on the service, one list for all the invocations
AppendMappingShared(frames, c, m) ==
    [d \in DOMAIN frames |-> [frames[d] EXCEPT !.mappings = Append(@, m)]]

\* mappings.append(m) in invocation c (lines 54 and 63): mappings is a local
AppendMapping(frames, c, m) ==
    [frames EXCEPT ![c].mappings = Append(@, m)]

\* an exception leaves the coroutine
Raise(c, e) ==
    /\ pc' = [pc EXCEPT ![c] = "raised"]
    /\ result' = [result EXCEPT ![c] = e]

\* a store asked only for an id it was not asked for before
LocateCached(c, ap, kind, attack_id) ==
    IF \E i \in 1..Len(queries) : queries[i].attack_id = attack_id
    THEN UNCHANGED queries
    ELSE queries' = Append(queries, [caller |-> c, ap |-> ap, kind |-> kind, attack_id |-> attack_id])

\* the locate('abilities') call of line 134, made for attack_id
Locate(c, ap, kind, attack_id) ==
    queries' = Append(queries, [caller |-> c, ap |-> ap, kind |-> kind, attack_id |-> attack_id])

\* lines 23-31: the check of the input and the list of the attack-patterns
Call(c) ==
    /\ pc[c] = "call"
    /\ LET stix_bundle == args[c].stix_bundle
       IN  IF NotABundle(stix_bundle)
           THEN Raise(c, Exc("ValueError")) /\ UNCHANGED frame
           ELSE LET objs == Or(DictGet(stix_bundle, "objects"), L(<<>>)).list
                    aps == SelectAttackPatterns(objs)
                IN  IF IsExc(aps)
                    THEN Raise(c, aps) /\ UNCHANGED frame
                    ELSE /\ frame' = [frame EXCEPT ![c].attack_patterns = aps.val,
                                                   ![c].mappings = <<>>,
                                                   ![c].ap_with_tech = 0,
                                                   ![c].total_abilities = 0]
                         /\ pc' = [pc EXCEPT ![c] = "loop"]
                         /\ UNCHANGED result
    /\ UNCHANGED <<data_svc, args, queries>>

\* lines 33-41 up to the await, or lines 33-37 and 62-69: the next
\* attack-pattern is read; with a technique id the store is asked
NextAttackPattern(c) ==
    /\ pc[c] = "loop"
    /\ frame[c].k < Len(frame[c].attack_patterns)
    /\ LET ap == frame[c].attack_patterns[frame[c].k + 1]
           tactics == _extract_mitre_tactics(ap)
           technique_id == _extract_mitre_technique_id(ap)
           read == [frame EXCEPT ![c].tactics = tactics,
                                 ![c].technique_id = technique_id]
       IN  IF Truthy(technique_id)
           THEN /\ frame' = [read EXCEPT ![c].ap_with_tech = @ + 1]
                /\ Locate(c, frame[c].k + 1, "exact", technique_id.str)
                /\ pc' = [pc EXCEPT ![c] = "await_exact"]
           ELSE /\ frame' = [AppendMapping(read, c, NullMapping(ap, tactics))
                                EXCEPT ![c].k = @ + 1]
                /\ UNCHANGED <<pc, queries>>
    /\ UNCHANGED <<data_svc, args, result>>

\* lines 48-61 for the abilities found: the filter, the count, the mapping
FinishAttackPattern(c, fr, abilities) ==
    LET ap == fr[c].attack_patterns[fr[c].k + 1]
        kept == Filtered(args[c].filter_by_tactic, fr[c].tactics, abilities)
    IN  IF IsExc(kept)
        THEN Raise(c, kept) /\ frame' = fr
        ELSE /\ frame' = [AppendMapping(fr, c,
                              Mapping(ap, fr[c].technique_id, fr[c].parent_technique_id,
                                      fr[c].tactics, kept.val))
                            EXCEPT ![c].total_abilities = @ + Len(kept.val),
                                   ![c].k = @ + 1]
             /\ pc' = [pc EXCEPT ![c] = "loop"]
             /\ UNCHANGED result

\* line 41 after the await, lines 136-160 and 43-46 up to the second await,
\* or on to lines 48-61
ResumeExact(c) ==
    /\ pc[c] = "await_exact"
    /\ LET found == FindAbilities(data_svc, frame[c].technique_id.str)
           fr == [frame EXCEPT ![c].parent_technique_id = None]
       IN  IF IsExc(found)
           THEN Raise(c, found) /\ UNCHANGED <<frame, queries>>
           ELSE IF ShouldFallback(found.val, args[c].fallback_to_parent,
                                  frame[c].technique_id.str)
           THEN LET parent == ParentOf(frame[c].technique_id.str)
                IN  /\ frame' = [fr EXCEPT ![c].parent_technique_id = S(parent)]
                    /\ Locate(c, frame[c].k + 1, "parent", parent)
                    /\ pc' = [pc EXCEPT ![c] = "await_parent"]
                    /\ UNCHANGED result
           ELSE FinishAttackPattern(c, fr, found.val) /\ UNCHANGED queries
    /\ UNCHANGED <<data_svc, args>>

\* line 46 after the await, lines 136-160 and 48-61
ResumeParent(c) ==
    /\ pc[c] = "await_parent"
    /\ LET found == FindAbilities(data_svc, frame[c].parent_technique_id.str)
       IN  IF IsExc(found)
           THEN Raise(c, found) /\ UNCHANGED frame
           ELSE FinishAttackPattern(c, frame, found.val)
    /\ UNCHANGED <<data_svc, args, queries>>

\* lines 71-78
Return(c) ==
    /\ pc[c] = "loop"
    /\ frame[c].k = Len(frame[c].attack_patterns)
    /\ pc' = [pc EXCEPT ![c] = "returned"]
    /\ result' = [result EXCEPT ![c] =
                     Result(frame[c].mappings, Len(frame[c].attack_patterns),
                            frame[c].ap_with_tech, frame[c].total_abilities)]
    /\ UNCHANGED <<data_svc, args, frame, queries>>

Next ==
    \/ \E c \in Callers : Call(c)
    \/ \E c \in Callers : NextAttackPattern(c)
    \/ \E c \in Callers : ResumeExact(c)
    \/ \E c \in Callers : ResumeParent(c)
    \/ \E c \in Callers : Return(c)

-----------------------------------------------------------------------------
(* The inputs the model draws from.                                        *)

MaxObjects == 2
MaxRefs == 3
MaxCallers == 2

SeqUpTo(T, n) == UNION {[1..m -> T] : m \in 0..n}

Ref(source_name, external_id) ==
    D([source_name |-> S(source_name), external_id |-> S(external_id)])
RefUrl(source_name, external_id, url) ==
    D([source_name |-> S(source_name), external_id |-> S(external_id), url |-> S(url)])
Phase(kill_chain_name, phase_name) ==
    D([kill_chain_name |-> S(kill_chain_name), phase_name |-> S(phase_name)])

SampleRefs ==
    { RefUrl("mitre-attack", "T1059.001", "https://attack.mitre.org/techniques/T1059"),
      Ref("MITRE-ATTACK", " t1055.011 "),
      RefUrl("mitre-attack", "CAPEC-1", "https://attack.mitre.org/techniques/T1055/011"),
      D([source_name |-> S("capec"), url |-> S("x/TECHNIQUES/t1003/")]),
      Ref("capec", "T1059"),
      D([source_name |-> S("mitre-attack"), external_id |-> None, url |-> S("/techniques/T105")]) }

AttackPattern(id, refs, phases) ==
    D([type |-> S("attack-pattern"), id |-> S(id), name |-> S("n-" \o id),
       external_references |-> L(refs), kill_chain_phases |-> L(phases)])

SampleObjects ==
    { AttackPattern("ap-a", <<Ref("mitre-attack", "T1059.001")>>,
                    <<Phase("mitre-attack", "execution")>>),
      AttackPattern("ap-b", <<Ref("MITRE-ATTACK", " t1055.011 ")>>,
                    <<Phase("Mitre-Attack", "privilege-escalation"),
                      Phase("mitre-attack", " defense-evasion "),
                      Phase("lockheed", "exploit"),
                      Phase("mitre-attack", "defense-evasion"),
                      Phase("mitre-attack", "  ")>>),
      AttackPattern("ap-c", <<RefUrl("mitre-attack", "bad", "https://attack.mitre.org/techniques/T1055/011"),
                              Ref("mitre-attack", "T1003")>>,
                    <<Phase("mitre-attack", "defense-evasion"),
                      Phase("mitre-attack", "credential-access")>>),
      AttackPattern("ap-d", <<D([source_name |-> S("capec"), url |-> S("x/TECHNIQUES/t1003/")])>>,
                    <<>>),
      D([type |-> S("attack-pattern"), name |-> S("no-refs"),
         kill_chain_phases |-> L(<<Phase("lockheed", "recon")>>)]),
      D([type |-> S("indicator"), id |-> S("ind-1")]),
      S("junk") }

Ability(id, tactic, attack_id) ==
    D([ability_id |-> S(id), name |-> S("n-" \o id), tactic |-> tactic,
       technique |-> D([attack_id |-> attack_id, name |-> S("t-" \o id)])])

StoreMixed ==
    L(<< Ability("a1", S("execution"), S("T1059.001")),
         Ability("a2", S("defense-evasion"), S("t1055")),
         O([id |-> S("a3"), tactic |-> S("privilege-escalation"),
            technique |-> O([attack_id |-> S("T1055"), name |-> S("inj")])]),
         D([id |-> S("a4"), tactic |-> S("credential-access"),
            technique |-> D([attack_id |-> S("T1003")])]),
         Ability("a5", S("Execution"), S("T1059.001")) >>)

StoreParents ==
    L(<< Ability("b1", S("execution"), S("T1059")),
         D([ability_id |-> S("b2"), tactic |-> S("execution")]),
         Ability("b3", S("stealth"), S("T1055.011")),
         Ability("b4", N(7), S("T1055.011")),
         Ability("b5", S("execution"), N(0)) >>)

StoreBadAttackId ==
    L(<< Ability("c1", S("execution"), S("T1059.001")),
         Ability("c2", S("execution"), N(1055)) >>)

StoreBadTactic ==
    L(<< Ability("d1", L(<<S("execution")>>), S("T1059.001")) >>)

SampleStores == {StoreMixed, StoreParents, StoreBadAttackId, StoreBadTactic, L(<<>>), None}

Bundle(objects) == D([type |-> S("bundle"), objects |-> L(objects)])

\* inputs without a list of objects, and inputs that are no bundle
OddInputs ==
    { D([type |-> S("bundle")]),
      D([type |-> S("bundle"), objects |-> None]),
      D([type |-> S("indicator"), objects |-> L(<<>>)]),
      D([objects |-> L(<<>>)]),
      S("bundle"),
      L(<<>>),
      None }

SampleBundles == {Bundle(q) : q \in SeqUpTo(SampleObjects, MaxObjects)} \cup OddInputs

\* one attack-pattern with every list of at most MaxRefs sample references
ExtractBundles ==
    {Bundle(<<AttackPattern("ap-x", refs, <<Phase("mitre-attack", "execution")>>)>>) :
        refs \in SeqUpTo(SampleRefs, MaxRefs)}
    \cup {S("bundle")}

ConcBundles ==
    { Bundle(<<AttackPattern("ap-a", <<Ref("mitre-attack", "T1059.001")>>,
                             <<Phase("mitre-attack", "execution")>>)>>),
      Bundle(<<AttackPattern("ap-b", <<Ref("MITRE-ATTACK", " t1055.011 ")>>,
                             <<Phase("mitre-attack", "defense-evasion")>>),
               D([type |-> S("attack-pattern"), id |-> S("ap-e")])>>) }

Args(bundles, fallbacks, filters) ==
    [stix_bundle : bundles, fallback_to_parent : fallbacks, filter_by_tactic : filters]

InitWith(callers, arguments, stores) ==
    /\ data_svc \in stores
    /\ args \in [callers -> arguments]
    /\ pc = [c \in callers |-> "call"]
    /\ frame = [c \in callers |-> NewFrame]
    /\ result = [c \in callers |-> None]
    /\ queries = <<>>

\* one invocation, any sample bundle against any sample store
Init == InitWith({1}, Args(SampleBundles, BOOLEAN, BOOLEAN), SampleStores)
Spec == Init /\ [][Next]_vars

\* one invocation on one attack-pattern, every list of references
InitExtract ==
    InitWith({1}, Args(ExtractBundles, BOOLEAN, BOOLEAN), {StoreMixed, StoreParents})
SpecExtract == InitExtract /\ [][Next]_vars

\* several invocations on one service, all with the tactic filter
InitConc ==
    InitWith(1..MaxCallers, Args(ConcBundles, BOOLEAN, {TRUE}),
             {StoreMixed, StoreBadAttackId})
SpecConc == InitConc /\ [][Next]_vars

-----------------------------------------------------------------------------
(* What the properties speak of.                                           *)

Returned(c) == pc[c] = "returned"

\* the objects of the input of invocation c, for an input that is a bundle
ObjectsOf(c) == Or(DictGet(args[c].stix_bundle, "objects"), L(<<>>)).list

\* the places of the attack-pattern objects in a list of objects
AttackPatternPlaces(objs) ==
    {i \in 1..Len(objs) : IsDict(objs[i]) /\ DictGet(objs[i], "type") = S("attack-pattern")}

\* the store queries invocation c made, in order
QueriesOf(c) ==
    LET Mine(q) == q.caller = c IN SelectSeq(queries, Mine)

\* was the parent of attack-pattern j queried by invocation c?
ParentQueried(c, j) ==
    \E i \in 1..Len(queries) :
        queries[i].caller = c /\ queries[i].ap = j /\ queries[i].kind = "parent"

\* the abilities of the store whose technique.attack_id is tid, ignoring case
ExactMatch(tid) == FindAbilities(data_svc, tid)

HasParentId(m) == "parent_technique_id" \in DOMAIN m

-----------------------------------------------------------------------------
\* C1: for every attack-pattern with a technique id, the parent is queried
\* if and only if the exact match is empty, fallback_to_parent is true and
\* the id holds a '.'; the query is for the part of the id before the first
\* dot; and a mapping has a parent_technique_id exactly when its parent was
\* queried (so never with fallback_to_parent false, and never after a
\* non-empty exact match, whatever the tactic filter removes).
C1_FallbackPolicy ==
    \A c \in Callers :
        \A j \in 1..Len(frame[c].attack_patterns) :
            LET tid == _extract_mitre_technique_id(frame[c].attack_patterns[j])
                due == /\ ~IsExc(ExactMatch(tid.str))
                       /\ ExactMatch(tid.str).val = <<>>
                       /\ args[c].fallback_to_parent
                       /\ HasDot(tid.str)
            IN  Truthy(tid) =>
                  /\ \A i \in 1..Len(queries) :
                        (queries[i].caller = c /\ queries[i].ap = j /\ queries[i].kind = "parent")
                            => due /\ queries[i].attack_id = BeforeDot(tid.str)
                  /\ (j <= frame[c].k /\ due) => ParentQueried(c, j)
                  /\ Returned(c) =>
                        (HasParentId(result[c].mappings[j]) <=> ParentQueried(c, j))

\* an invocation returned one mapping matched through the parent and one
\* whose non-empty exact match the tactic filter emptied, without fallback
C1_Witness ==
    \E c \in Callers :
        /\ Returned(c)
        /\ args[c].fallback_to_parent
        /\ \E j \in 1..Len(result[c].mappings) :
              /\ HasParentId(result[c].mappings[j])
              /\ result[c].mappings[j].abilities # <<>>
        /\ \E j \in 1..Len(result[c].mappings) :
              LET m == result[c].mappings[j]
              IN  /\ Truthy(m.technique_id)
                  /\ HasDot(m.technique_id.str)
                  /\ ExactMatch(m.technique_id.str).val # <<>>
                  /\ m.abilities = <<>>
                  /\ ~HasParentId(m)

\* C2: in a returned mapping technique_id is the id derived from the
\* attack-pattern; without parent_technique_id every ability's
\* technique.attack_id equals technique_id ignoring case; with it the parent
\* was queried and every ability's technique.attack_id equals
\* parent_technique_id ignoring case.
C2_MatchedHow ==
    \A c \in Callers :
        Returned(c) =>
            \A j \in 1..Len(result[c].mappings) :
                LET m == result[c].mappings[j]
                    used == IF HasParentId(m) THEN m.parent_technique_id ELSE m.technique_id
                IN  /\ m.technique_id = _extract_mitre_technique_id(frame[c].attack_patterns[j])
                    /\ HasParentId(m) =>
                          /\ ParentQueried(c, j)
                          /\ IsStr(m.parent_technique_id)
                          /\ m.parent_technique_id # m.technique_id
                    /\ \A i \in 1..Len(m.abilities) :
                          LET id == m.abilities[i].technique.attack_id
                          IN  IsStr(used) /\ IsStr(id) /\ Upper(id.str) = Upper(used.str)

\* abilities were returned through the parent, one of them under an
\* attack_id written in another case than the parent id
C2_Witness ==
    \E c \in Callers :
        /\ Returned(c)
        /\ \E j \in 1..Len(result[c].mappings) :
              LET m == result[c].mappings[j]
              IN  /\ HasParentId(m)
                  /\ \E i \in 1..Len(m.abilities) :
                        m.abilities[i].technique.attack_id # m.parent_technique_id
        /\ \E j \in 1..Len(result[c].mappings) :
              LET m == result[c].mappings[j]
              IN  ~HasParentId(m) /\ m.abilities # <<>>

RECURSIVE SumLen(_)
SumLen(ms) == IF ms = <<>> THEN 0 ELSE Len(Head(ms).abilities) + SumLen(Tail(ms))

\* C4: the stats of a returned result count its mappings: attack_patterns
\* is their number, one per attack-pattern object of the bundle,
\* with_technique the number of those with a technique_id, abilities_found
\* the sum of the lengths of their abilities; a mapping without technique_id
\* has no abilities.
C4_StatsConsistent ==
    \A c \in Callers :
        Returned(c) =>
            LET ms == result[c].mappings
                st == result[c].stats
            IN  /\ st.attack_patterns = Len(ms)
                /\ Len(ms) = Cardinality(AttackPatternPlaces(ObjectsOf(c)))
                /\ st.with_technique =
                     Cardinality({j \in 1..Len(ms) : ~IsNone(ms[j].technique_id)})
                /\ st.abilities_found = SumLen(ms)
                /\ \A j \in 1..Len(ms) :
                      IsNone(ms[j].technique_id) => ms[j].abilities = <<>>

\* a result of two mappings, one of them without technique id and the other
\* with abilities
C4_Witness ==
    \E c \in Callers :
        /\ Returned(c)
        /\ result[c].stats.attack_patterns = 2
        /\ result[c].stats.with_technique = 1
        /\ result[c].stats.abilities_found >= 1

-----------------------------------------------------------------------------
(* match_stix_to_abilities run from line 23 to its end with nothing else   *)
(* running: the value returned, or the exception.                          *)

RECURSIVE AloneLoop(_, _, _, _, _, _)
AloneLoop(aps, a, store, mappings, ap_with_tech, total_abilities) ==
    IF Len(mappings) = Len(aps)
    THEN Result(mappings, Len(aps), ap_with_tech, total_abilities)
    ELSE LET ap == aps[Len(mappings) + 1]
             tactics == _extract_mitre_tactics(ap)
             technique_id == _extract_mitre_technique_id(ap)
             exact == FindAbilities(store, technique_id.str)
             fallback == ShouldFallback(exact.val, a.fallback_to_parent, technique_id.str)
             parent == ParentOf(technique_id.str)
             found == IF fallback THEN FindAbilities(store, parent) ELSE exact
             kept == Filtered(a.filter_by_tactic, tactics, found.val)
         IN  IF ~Truthy(technique_id)
             THEN AloneLoop(aps, a, store, Append(mappings, NullMapping(ap, tactics)),
                            ap_with_tech, total_abilities)
             ELSE IF IsExc(exact) THEN exact
             ELSE IF IsExc(found) THEN found
             ELSE IF IsExc(kept) THEN kept
             ELSE AloneLoop(aps, a, store,
                            Append(mappings,
                                   Mapping(ap, technique_id,
                                           IF fallback THEN S(parent) ELSE None,
                                           tactics, kept.val)),
                            ap_with_tech + 1, total_abilities + Len(kept.val))

RunAlone(a, store) ==
    IF NotABundle(a.stix_bundle) THEN Exc("ValueError")
    ELSE LET aps == SelectAttackPatterns(
                        Or(DictGet(a.stix_bundle, "objects"), L(<<>>)).list)
         IN  IF IsExc(aps) THEN aps
             ELSE AloneLoop(aps.val, a, store, <<>>, 0, 0)

-----------------------------------------------------------------------------
\* C3: the abilities returned with filter_by_tactic are, mapping by mapping,
\* those of the result for the same input without the filter whose tactic
\* is one of the attack-pattern's tactics, as written and in the same order;
\* with no tactics they are the unfiltered list.
C3_FilterIsSelection ==
    \A c \in Callers :
        (Returned(c) /\ args[c].filter_by_tactic) =>
            LET plain == RunAlone([args[c] EXCEPT !.filter_by_tactic = FALSE], data_svc)
            IN  /\ ~IsExc(plain)
                /\ Len(plain.mappings) = Len(result[c].mappings)
                /\ \A j \in 1..Len(result[c].mappings) :
                      LET m == result[c].mappings[j]
                          all == plain.mappings[j].abilities
                          InTactics(a) ==
                              \E i \in 1..Len(m.tactics) : a.tactic = S(m.tactics[i])
                      IN  /\ m.tactics # <<>> => m.abilities = SelectSeq(all, InTactics)
                          /\ m.tactics = <<>> => m.abilities = all
                          /\ HasParentId(m) <=> HasParentId(plain.mappings[j])

\* the filter ran: it dropped an ability of one mapping and kept another,
\* and left the abilities of a mapping without tactics alone
C3_Witness ==
    \E c \in Callers :
        /\ Returned(c)
        /\ args[c].filter_by_tactic
        /\ LET plain == RunAlone([args[c] EXCEPT !.filter_by_tactic = FALSE], data_svc)
           IN  /\ \E j \in 1..Len(result[c].mappings) :
                     /\ result[c].mappings[j].abilities # <<>>
                     /\ Len(result[c].mappings[j].abilities) < Len(plain.mappings[j].abilities)
               /\ \E j \in 1..Len(result[c].mappings) :
                     /\ result[c].mappings[j].tactics = <<>>
                     /\ result[c].mappings[j].abilities # <<>>

\* is invocation c past line 24?
Started(c) == pc[c] # "call"

\* C5: the input is refused with InvalidBundle (ValueError) exactly when it
\* is no dict or its type is not "bundle", before any store query; and a
\* bundle without attack-pattern objects is not refused: it yields no
\* mappings and stats of 0.
C5_RejectOrEmpty ==
    \A c \in Callers :
        LET b == args[c].stix_bundle
            bundle == IsDict(b) /\ "type" \in DOMAIN b.dict /\ b.dict.type = S("bundle")
        IN  Started(c) =>
              /\ (result[c] = Exc("ValueError")) <=> ~bundle
              /\ result[c] = Exc("ValueError") => QueriesOf(c) = <<>>
              /\ (bundle /\ AttackPatternPlaces(ObjectsOf(c)) = {}) =>
                    /\ pc[c] # "raised"
                    /\ Returned(c) =>
                          result[c] = [mappings |-> <<>>,
                                       stats |-> [attack_patterns |-> 0,
                                                  with_technique |-> 0,
                                                  abilities_found |-> 0]]

\* C6: an input that is a dict of type "bundle" never makes
\* match_stix_to_abilities raise, whatever the ability store holds (stated
\* here for the bundles whose objects are all dicts, so that what is left to
\* go wrong is the store).
C6_NeverRaises ==
    \A c \in Callers :
        (/\ ~NotABundle(args[c].stix_bundle)
         /\ \A i \in 1..Len(ObjectsOf(c)) : IsDict(ObjectsOf(c)[i]))
            => pc[c] # "raised"


-----------------------------------------------------------------------------
\* T#### or T####.###, in upper case
WellFormedId(s) ==
    /\ Len(s) \in {5, 9}
    /\ Ch(s, 1) = "T"
    /\ \A i \in 2..5 : Ch(s, i) \in Digits
    /\ Len(s) = 9 => (Ch(s, 6) = "." /\ \A i \in 7..9 : Ch(s, i) \in Digits)

RefsOf(ap) == Or(DictGet(ap, "external_references"), L(<<>>)).list
IsMitreRef(r) == Lower(Or(DictGet(r, "source_name"), S("")).str) = "mitre-attack"
\* the id the external_id of a reference gives, "" if none
ExternalIdOf(r) ==
    LET e == Upper(Strip(Or(DictGet(r, "external_id"), S("")).str))
    IN  IF WellFormedId(e) THEN e ELSE ""
\* the id the url of a reference gives, "" if none
UrlIdOf(r) ==
    LET m == MITRE_URL_ID_RE(Or(DictGet(r, "url"), S("")).str)
    IN  IF IsNone(m) THEN "" ELSE UrlTechniqueId(m).str

Least(T) == CHOOSE i \in T : \A j \in T : i <= j

\* the id of the first mitre-attack reference, in list order, that gives one
\* (its external_id before its url), else of the first url that gives one
FirstYield(refs) ==
    LET mitre == {i \in 1..Len(refs) :
                     IsMitreRef(refs[i])
                     /\ (ExternalIdOf(refs[i]) # "" \/ UrlIdOf(refs[i]) # "")}
        any == {i \in 1..Len(refs) : UrlIdOf(refs[i]) # ""}
    IN  IF mitre # {}
        THEN LET r == refs[Least(mitre)]
             IN  IF ExternalIdOf(r) # "" THEN S(ExternalIdOf(r)) ELSE S(UrlIdOf(r))
        ELSE IF any # {} THEN S(UrlIdOf(refs[Least(any)]))
        ELSE None

\* the sources of the claim, each over the whole list
WholeListPriority(refs, tid) ==
    LET ext == {ExternalIdOf(refs[i]) : i \in {j \in 1..Len(refs) : IsMitreRef(refs[j])}} \ {""}
        murl == {UrlIdOf(refs[i]) : i \in {j \in 1..Len(refs) : IsMitreRef(refs[j])}} \ {""}
        any == {UrlIdOf(refs[i]) : i \in 1..Len(refs)} \ {""}
    IN  IF ext # {} THEN IsStr(tid) /\ tid.str \in ext
        ELSE IF murl # {} THEN IsStr(tid) /\ tid.str \in murl
        ELSE IF any # {} THEN IsStr(tid) /\ tid.str \in any
        ELSE IsNone(tid)

\* C7 as claimed: the technique id comes from the best source found anywhere
\* in the list: an external_id of a mitre-attack reference, else a url of a
\* mitre-attack reference, else a url of any reference, else null.
C7_WholeListPriority ==
    \A c \in Callers :
        Returned(c) =>
            \A j \in 1..Len(result[c].mappings) :
                WholeListPriority(RefsOf(frame[c].attack_patterns[j]),
                                  result[c].mappings[j].technique_id)

\* C7 as amended: the references are scanned in list order and the first
\* mitre-attack reference that gives an id decides, by its external_id if
\* that is well-formed and by its url otherwise; only when no mitre-attack
\* reference gives an id the first url, of any reference, that holds one
\* decides; otherwise the id is null. An id is upper-case T#### or T####.###.
C7_FirstYieldingReference ==
    \A c \in Callers :
        Returned(c) =>
            \A j \in 1..Len(result[c].mappings) :
                LET tid == result[c].mappings[j].technique_id
                IN  /\ tid = FirstYield(RefsOf(frame[c].attack_patterns[j]))
                    /\ ~IsNone(tid) => IsStr(tid) /\ WellFormedId(tid.str)

\* an id taken from the url of a mitre-attack reference that stands before
\* a mitre-attack reference with a well-formed external_id
C7_Witness ==
    \E c \in Callers :
        /\ Returned(c)
        /\ \E j \in 1..Len(result[c].mappings) :
              LET refs == RefsOf(frame[c].attack_patterns[j])
              IN  \E a, b \in 1..Len(refs) :
                      /\ a < b
                      /\ IsMitreRef(refs[a]) /\ ExternalIdOf(refs[a]) = ""
                      /\ IsMitreRef(refs[b]) /\ ExternalIdOf(refs[b]) # ""
                      /\ result[c].mappings[j].technique_id = S(UrlIdOf(refs[a]))
                      /\ UrlIdOf(refs[a]) # ExternalIdOf(refs[b])

-----------------------------------------------------------------------------
\* the place in objs of its j-th attack-pattern
NthAttackPattern(objs, j) ==
    CHOOSE i \in AttackPatternPlaces(objs) :
        Cardinality({h \in AttackPatternPlaces(objs) : h < i}) = j - 1

\* the tactics an attack-pattern names
TacticsNamed(ap) ==
    LET phases == Or(DictGet(ap, "kill_chain_phases"), L(<<>>)).list
    IN  {Strip(Or(DictGet(phases[i], "phase_name"), S("")).str) :
            i \in {h \in 1..Len(phases) :
                      Lower(Or(DictGet(phases[h], "kill_chain_name"), S("")).str)
                          = "mitre-attack"}} \ {""}

\* C8: the mappings of a returned result are those of the attack-pattern
\* objects of the bundle, one each and in their order, every other object
\* skipped; the tactics of a mapping are the trimmed non-empty phase names
\* of its mitre-attack phases, each once, in ascending order.
C8_OrderPreserved ==
    \A c \in Callers :
        Returned(c) =>
            LET objs == ObjectsOf(c)
                ms == result[c].mappings
            IN  /\ Len(ms) = Cardinality(AttackPatternPlaces(objs))
                /\ \A j \in 1..Len(ms) :
                      LET ap == objs[NthAttackPattern(objs, j)]
                          t == ms[j].tactics
                      IN  /\ ms[j].attack_pattern_id = DictGet(ap, "id")
                          /\ ms[j].name = DictGet(ap, "name")
                          /\ {t[i] : i \in 1..Len(t)} = TacticsNamed(ap)
                          /\ \A i \in 1..(Len(t) - 1) : StrLess(t[i], t[i + 1])

\* an object that is no attack-pattern was skipped, and a mapping has two
\* tactics that the attack-pattern names in descending order
C8_Witness ==
    \E c \in Callers :
        /\ Returned(c)
        /\ Len(result[c].mappings) < Len(ObjectsOf(c))
        /\ \E j \in 1..Len(result[c].mappings) :
              LET ap == frame[c].attack_patterns[j]
                  phases == DictGet(ap, "kill_chain_phases").list
              IN  /\ Len(result[c].mappings[j].tactics) = 2
                  /\ StrLess(Strip(DictGet(phases[2], "phase_name").str),
                             Strip(DictGet(phases[1], "phase_name").str))


-----------------------------------------------------------------------------
Finished(c) == pc[c] \in {"returned", "raised"}

\* a step leaves alone the locals, the position and the result of every
\* invocation but one, and the store and the arguments of all
OnlyOwnStateWritten ==
    /\ data_svc' = data_svc
    /\ args' = args
    /\ \E c \in Callers :
          \A d \in Callers \ {c} :
              frame'[d] = frame[d] /\ pc'[d] = pc[d] /\ result'[d] = result[d]

\* C9: however the invocations on one service interleave at their store
\* queries, each ends with what it ends with when run alone, and no step of
\* one writes the store, the arguments or the state of another.
C9_Independent ==
    /\ [](\A c \in Callers : Finished(c) => result[c] = RunAlone(args[c], data_svc))
    /\ [][OnlyOwnStateWritten]_vars

\* two invocations returned mappings after their store queries interleaved
C9_Witness ==
    /\ Cardinality(Callers) >= 2
    /\ \A c \in Callers : Returned(c) /\ result[c].mappings # <<>>
    /\ \E i, j, h \in 1..Len(queries) :
          /\ i < j /\ j < h
          /\ queries[i].caller = queries[h].caller
          /\ queries[j].caller # queries[i].caller

-----------------------------------------------------------------------------
\* C10 as claimed: a returned invocation queried the store once per
\* attack-pattern of the bundle, plus once per mapping matched by fallback.
C10_QueryPerAttackPattern ==
    \A c \in Callers :
        Returned(c) =>
            Len(QueriesOf(c)) =
                Len(result[c].mappings)
                + Cardinality({j \in 1..Len(result[c].mappings) :
                                  HasParentId(result[c].mappings[j])})

\* C10 as amended: the store is queried once per attack-pattern that has a
\* technique id, and not for one without, plus once more for each on which
\* the fallback triggers, the same id being queried again when it recurs;
\* the queries come in the order of the attack-patterns, a fallback query
\* right after the exact query of its attack-pattern; a returned invocation
\* made with_technique queries plus one per mapping with a parent id.
C10_QueryPerTechniqueId ==
    \A c \in Callers :
        LET q == QueriesOf(c)
            aps == frame[c].attack_patterns
            exact == {i \in 1..Len(q) : q[i].kind = "exact"}
        IN  /\ Cardinality(exact) = frame[c].ap_with_tech
            /\ \A i \in exact :
                  /\ Truthy(_extract_mitre_technique_id(aps[q[i].ap]))
                  /\ q[i].attack_id = _extract_mitre_technique_id(aps[q[i].ap]).str
                  /\ \A h \in exact : h < i => q[h].ap < q[i].ap
            /\ \A i \in 1..Len(q) :
                  q[i].kind = "parent" =>
                      i - 1 \in exact /\ q[i - 1].ap = q[i].ap
            /\ \A j \in 1..frame[c].k :
                  Truthy(_extract_mitre_technique_id(aps[j]))
                      <=> \E i \in exact : q[i].ap = j
            /\ Returned(c) =>
                  Len(q) = result[c].stats.with_technique
                           + Cardinality({j \in 1..Len(result[c].mappings) :
                                             HasParentId(result[c].mappings[j])})

\* a returned invocation that queried the store for a technique id and for
\* its parent, and made no query for an attack-pattern without technique id
C10_Witness ==
    \E c \in Callers :
        /\ Returned(c)
        /\ Len(QueriesOf(c)) >= 2
        /\ \E i \in 1..Len(queries) : queries[i].kind = "parent"
        /\ \E j \in 1..Len(result[c].mappings) : IsNone(result[c].mappings[j].technique_id)

====
